---- MODULE Spec2Model ----
(***************************************************************************)
(* The bulk-import reconciliation of TaskTitan: the executeImport server   *)
(* action (three passes over the uploaded rows: create the components,     *)
(* link the parents, link the dependencies) and the store calls it makes.  *)
(* Strings are sequences of one-character strings, so that trim and split  *)
(* are computed and not assumed.                                           *)
(***************************************************************************)
EXTENDS Integers, Sequences, FiniteSets, TLC

(***************************************************************************)
(* Bounds of the model.                                                    *)
(***************************************************************************)
MaxRows == 2
MaxFailures == 1

(***************************************************************************)
(* JavaScript values.                                                      *)
(***************************************************************************)
\* `undefined`, as getValue and Map.get return it: no cell equals it, since
\* a cell is a sequence of one-character strings.
Undefined == <<"undefined">>
\* the id Map.get(name) yields for an absent key (undefined)
NoId == 0
\* targetField: null in a mapping pair
Null == "null"

\* JavaScript truthiness of a string | undefined
Truthy(v) == v # Undefined /\ v # <<>>

IsSpace(c) == c = " "

RECURSIVE TrimStart(_)
TrimStart(s) ==
    IF s # <<>> /\ IsSpace(Head(s)) THEN TrimStart(Tail(s)) ELSE s

RECURSIVE TrimEnd(_)
TrimEnd(s) ==
    IF s # <<>> /\ IsSpace(s[Len(s)]) THEN TrimEnd(SubSeq(s, 1, Len(s) - 1)) ELSE s

\* String.prototype.trim
Trim(s) == TrimEnd(TrimStart(s))

UpperLetters ==
    << "A", "B", "C", "D", "E", "F", "G", "H", "I", "J", "K", "L", "M",
       "N", "O", "P", "Q", "R", "S", "T", "U", "V", "W", "X", "Y", "Z" >>

LowerLetters ==
    << "a", "b", "c", "d", "e", "f", "g", "h", "i", "j", "k", "l", "m",
       "n", "o", "p", "q", "r", "s", "t", "u", "v", "w", "x", "y", "z" >>

LowerChar(c) ==
    IF \E k \in 1..Len(UpperLetters) : UpperLetters[k] = c
    THEN LowerLetters[CHOOSE k \in 1..Len(UpperLetters) : UpperLetters[k] = c]
    ELSE c

\* String.prototype.toLowerCase
ToLowerCase(s) == [k \in 1..Len(s) |-> LowerChar(s[k])]

\* String.prototype.includes
Includes(s, sub) ==
    \E k \in 0..(Len(s) - Len(sub)) : SubSeq(s, k + 1, k + Len(sub)) = sub

\* String.prototype.split(','): the pieces between the commas, empty ones kept
RECURSIVE SplitFrom(_, _)
SplitFrom(s, cur) ==
    IF s = <<>> THEN <<cur>>
    ELSE IF Head(s) = "," THEN <<cur>> \o SplitFrom(Tail(s), <<>>)
    ELSE SplitFrom(Tail(s), Append(cur, Head(s)))

Split(s) == SplitFrom(s, <<>>)

RECURSIVE FilterTruthy(_)
FilterTruthy(q) ==
    IF q = <<>> THEN <<>>
    ELSE IF Head(q) # <<>> THEN <<Head(q)>> \o FilterTruthy(Tail(q))
    ELSE FilterTruthy(Tail(q))

\* raw.split(',').map((d) => d.trim()).filter(Boolean)
\* (the pieces are split off once, then trimmed and filtered)
SplitList(raw) ==
    CHOOSE kept \in { FilterTruthy([k \in 1..Len(parts) |-> Trim(parts[k])]) :
                        parts \in { Split(raw) } } : TRUE

\* a lookup that never finds the key
MapGet_Miss(m, k) == NoId

\* Map.prototype.get, undefined (NoId) for an absent key
MapGet(m, k) == IF k \in DOMAIN m THEN m[k] ELSE NoId

\* a duplicate check that never finds the name
MapHas_Never(m, k) == FALSE

\* Map.prototype.has
MapHas(m, k) == k \in DOMAIN m

\* a set that records nothing
MapSet_Drop(m, k, v) == m

\* Map.prototype.set on the name -> id map: an existing key is overwritten
MapSet(m, k, v) == [x \in (DOMAIN m) \cup {k} |-> IF x = k THEN v ELSE m[x]]

(***************************************************************************)
(* The inputs of one call: column names, cells, rows and mappings.         *)
(***************************************************************************)
Cols == {"c1", "c2", "c3"}

Pair(col, target) == [sourceColumn |-> col, targetField |-> target]

\* the usual mapping: a name column, a parent column, a dependencies column
StdMapping ==
    << Pair("c1", "name"), Pair("c2", "parentName"), Pair("c3", "dependencies") >>

\* a mapping whose first column is left unmapped: nothing targets `name`
UnnamedMapping ==
    << Pair("c1", Null), Pair("c2", "parentName"), Pair("c3", "dependencies") >>

MappingSet == {StdMapping, UnnamedMapping}

\* name cells: whitespace only, "A", "B " (trimmed to "B")
NameCells == { <<" ">>, <<"A">>, <<"B", " ">> }
\* parent cells: none, a name of the batch, "C" (no row is named "C")
ParentCells == { <<>>, <<"A">>, <<"B">>, <<"C">> }
\* dependency cells: none, "B,, C,B"
DepCells == { <<>>, <<"B", ",", ",", " ", "C", ",", "B">> }

RowSet == { r \in [Cols -> NameCells \cup ParentCells \cup DepCells] :
              r["c1"] \in NameCells /\ r["c2"] \in ParentCells /\ r["c3"] \in DepCells }

Batches == UNION { [1..n -> RowSet] : n \in 1..MaxRows }

VARIABLES
    mappings,             \* parsedInput.mappings
    rows,                 \* parsedInput.rows
    createMissingParents, \* parsedInput.createMissingParents
    pc,                   \* where executeImport is: pass1, pass2, pass3, done, threw
    i,                    \* the loop index of the running pass
    j,                    \* pass 3: the index into the row's depNames
    createdItems,         \* name -> id
    parentQueue,          \* sequence of [id, parentName]
    stats,                \* created, skipped, errors, warnings
    components,           \* the store's component table: id -> record
    dependencies,         \* the store's dependency table: set of <<dependent, required>>
    calls,                \* every store call this run made so far, in order, with its outcome
    failures,             \* how many store calls of this run were rejected so far
    earlier               \* what the run before this one returned and was answered

vars == << mappings, rows, createMissingParents, pc, i, j, createdItems,
           parentQueue, stats, components, dependencies, calls, failures,
           earlier >>

\* what no step of a run changes: parsedInput, and the record of the run before
inputs == << mappings, rows, createMissingParents, earlier >>

(***************************************************************************)
(* Build mapping lookup, and the helper to get a mapped value.             *)
(***************************************************************************)
\* Map.set on the insertion-ordered sourceColumn -> targetField map
FieldMapSet(fm, col, target) ==
    IF \E k \in 1..Len(fm) : fm[k].col = col
    THEN [k \in 1..Len(fm) |->
            IF fm[k].col = col THEN [col |-> col, target |-> target] ELSE fm[k]]
    ELSE Append(fm, [col |-> col, target |-> target])

RECURSIVE BuildFieldMap(_, _)
BuildFieldMap(ms, fm) ==
    IF ms = <<>> THEN fm
    ELSE BuildFieldMap(Tail(ms),
            IF Head(ms).targetField # Null
            THEN FieldMapSet(fm, Head(ms).sourceColumn, Head(ms).targetField)
            ELSE fm)

fieldMap == BuildFieldMap(mappings, <<>>)

\* a lookup that stops at the first column mapped to the field
RECURSIVE GetValueFrom_FirstOnly(_, _, _)
GetValueFrom_FirstOnly(fm, row, field) ==
    IF fm = <<>> THEN Undefined
    ELSE IF Head(fm).target = field
         THEN IF Truthy(row[Head(fm).col]) THEN Trim(row[Head(fm).col]) ELSE Undefined
         ELSE GetValueFrom_FirstOnly(Tail(fm), row, field)

RECURSIVE GetValueFrom(_, _, _)
GetValueFrom(fm, row, field) ==
    IF fm = <<>> THEN Undefined
    ELSE IF Head(fm).target = field /\ Truthy(row[Head(fm).col])
         THEN Trim(row[Head(fm).col])
         ELSE GetValueFrom(Tail(fm), row, field)

\* (fieldMap is built once, before the helper is first called)
getValue(row, field) ==
    CHOOSE v \in { GetValueFrom(fm, row, field) : fm \in { fieldMap } } : TRUE

\* Helper to parse type
parseType(value) ==
    IF ~Truthy(value) THEN "TASK"
    ELSE LET lower == ToLowerCase(value)
         IN  IF Includes(lower, <<"e", "p", "i", "c">>) THEN "EPIC"
             ELSE IF Includes(lower, <<"f", "e", "a", "t", "u", "r", "e">>) THEN "FEATURE"
             ELSE IF \/ Includes(lower, <<"s", "t", "o", "r", "y">>)
                     \/ Includes(lower, <<"u", "s", "e", "r", " ", "s", "t", "o", "r", "y">>)
                  THEN "STORY"
             ELSE IF Includes(lower, <<"b", "u", "g">>) THEN "BUG"
             ELSE "TASK"

\* the result of parseInt: NaN, or an integer
NaN == [nan |-> TRUE, val |-> 0]
Num(n) == [nan |-> FALSE, val |-> n]

Digits == << "0", "1", "2", "3", "4", "5", "6", "7", "8", "9" >>
IsDigit(c) == \E k \in DOMAIN Digits : Digits[k] = c
DigitValue(c) == (CHOOSE k \in DOMAIN Digits : Digits[k] = c) - 1

\* the value of the longest prefix of decimal digits of s, after acc
RECURSIVE DigitsValue(_, _)
DigitsValue(s, acc) ==
    IF s # <<>> /\ IsDigit(Head(s))
    THEN DigitsValue(Tail(s), acc * Len(Digits) + DigitValue(Head(s)))
    ELSE acc

\* parseInt(value, 10): leading white space, an optional sign, then the
\* longest prefix of digits; NaN when there is no digit
ParseInt(s) ==
    LET t == TrimStart(s)
        signed == t # <<>> /\ Head(t) \in {"+", "-"}
        body == IF signed THEN Tail(t) ELSE t
    IN  IF body = <<>> \/ ~IsDigit(Head(body)) THEN NaN
        ELSE IF signed /\ Head(t) = "-" THEN Num(0 - DigitsValue(body, 0))
        ELSE Num(DigitsValue(body, 0))

Min(a, b) == IF a <= b THEN a ELSE b
Max(a, b) == IF a >= b THEN a ELSE b

\* Helper to parse priority
parsePriority(value) ==
    IF ~Truthy(value) THEN 0
    ELSE LET lower == ToLowerCase(value)
             num == ParseInt(value)
         IN  IF Includes(lower, <<"c", "r", "i", "t", "i", "c", "a", "l">>) \/ Includes(lower, <<"h", "i", "g", "h", "e", "s", "t">>) \/ lower = <<"p", "0">> THEN 5
             ELSE IF Includes(lower, <<"h", "i", "g", "h">>) \/ lower = <<"p", "1">> THEN 4
             ELSE IF Includes(lower, <<"m", "e", "d", "i", "u", "m">>) \/ lower = <<"p", "2">> THEN 3
             ELSE IF Includes(lower, <<"l", "o", "w">>) \/ lower = <<"p", "3">> THEN 2
             ELSE IF Includes(lower, <<"l", "o", "w", "e", "s", "t">>) \/ lower = <<"p", "4">> THEN 1
             ELSE IF ~num.nan THEN Min(5, Max(0, num.val))
             ELSE 0

(***************************************************************************)
(* The report entries.                                                     *)
(***************************************************************************)
Warning(kind, row, name, dep) == [kind |-> kind, row |-> row, name |-> name, dep |-> dep]

\* `Row ${i + 1}: Skipped - no name` (the model's rows are numbered from 1)
WarnNoName(r) == Warning("Skipped - no name", r, <<>>, <<>>)
\* `Row ${i + 1}: Skipped duplicate "${name}"`
WarnDuplicate(r, name) == Warning("Skipped duplicate", r, name, <<>>)
\* `Auto-created parent Epic: "${parentName}"`
WarnAutoCreated(name) == Warning("Auto-created parent Epic", 0, name, <<>>)
\* `Could not create parent "${parentName}"`
WarnCouldNotCreate(name) == Warning("Could not create parent", 0, name, <<>>)
\* `Parent not found: "${parentName}"`
WarnParentNotFound(name) == Warning("Parent not found", 0, name, <<>>)
\* `Dependency not found: "${name}" depends on "${depName}"`
WarnDepNotFound(name, dep) == Warning("Dependency not found", 0, name, dep)

\* `Row ${i + 1}: ${error.message}`
RowError(r) == [row |-> r, message |-> "store error"]

(***************************************************************************)
(* The store (prisma): each call is accepted or rejected by the store.     *)
(***************************************************************************)
Call(op, name, type, id, ref, ok) ==
    [op |-> op, name |-> name, type |-> type, id |-> id, ref |-> ref, ok |-> ok]

\* the outcomes the store may give the next call
StoreOutcomes == IF failures < MaxFailures THEN {TRUE, FALSE} ELSE {TRUE}

\* the id the store gives the next component it creates
FreshId == Cardinality(DOMAIN components) + 1

\* a create whose data give no priority leaves it to the store
NoPriority == 0 - 1

\* a create whose data put the item under the first component of the store
Component_UnderFirst(name, type) ==
    [name |-> name, type |-> type, parentId |-> 1, priority |-> NoPriority]

Component(name, type) ==
    [name |-> name, type |-> type, parentId |-> NoId, priority |-> NoPriority]

Rejected(ok) == IF ok THEN failures ELSE failures + 1

\* no run came before: the store is empty
NoRun ==
    [ran |-> FALSE, created |-> 0, skipped |-> 0, order |-> <<>>, links |-> {},
     edges |-> {}, outcomes |-> <<>>, base |-> 0]

\* the locals of executeImport and the store when Pass 1 begins
Start ==
    /\ earlier = NoRun
    /\ createMissingParents \in BOOLEAN
    /\ pc = "pass1"
    /\ i = 1
    /\ j = 1
    /\ createdItems = [n \in {} |-> NoId]
    /\ parentQueue = <<>>
    /\ stats = [created |-> 0, skipped |-> 0, errors |-> <<>>, warnings |-> <<>>]
    /\ components = [c \in {} |-> Component(<<>>, "TASK")]
    /\ dependencies = {}
    /\ calls = <<>>
    /\ failures = 0

Init ==
    /\ mappings \in MappingSet
    /\ rows \in Batches
    /\ Start

(***************************************************************************)
(* First pass: create all items.                                           *)
(***************************************************************************)
InPass1 == pc = "pass1" /\ i <= Len(rows)

Pass1SkipNoName ==
    /\ InPass1
    /\ ~Truthy(getValue(rows[i], "name"))
    /\ stats' = [stats EXCEPT !.skipped = @ + 1,
                              !.warnings = Append(@, WarnNoName(i))]
    /\ i' = i + 1
    /\ UNCHANGED << inputs, pc, j, createdItems, parentQueue, components,
                    dependencies, calls, failures >>

Pass1SkipDuplicate ==
    /\ InPass1
    /\ Truthy(getValue(rows[i], "name"))
    /\ MapHas(createdItems, getValue(rows[i], "name"))
    /\ stats' = [stats EXCEPT !.skipped = @ + 1,
                              !.warnings = Append(@, WarnDuplicate(i, getValue(rows[i], "name")))]
    /\ i' = i + 1
    /\ UNCHANGED << inputs, pc, j, createdItems, parentQueue, components,
                    dependencies, calls, failures >>

\* a catch that counts the failed row as skipped and reports nothing
Pass1Catch_Skip(r) ==
    /\ stats' = [stats EXCEPT !.skipped = @ + 1]
    /\ UNCHANGED << components, createdItems, parentQueue >>

\* a catch after the name was put in createdItems ahead of the create
Pass1Catch_Indexed(r) ==
    /\ stats' = [stats EXCEPT !.errors = Append(@, RowError(r))]
    /\ createdItems' = MapSet(createdItems, getValue(rows[r], "name"), FreshId)
    /\ UNCHANGED << components, parentQueue >>

\* a catch after created was counted ahead of the create
Pass1Catch_Counted(r) ==
    /\ stats' = [stats EXCEPT !.created = @ + 1, !.errors = Append(@, RowError(r))]
    /\ UNCHANGED << components, createdItems, parentQueue >>

\* a catch that drops the row: nothing is reported
Pass1Catch_Silent(r) ==
    /\ stats' = stats
    /\ UNCHANGED << components, createdItems, parentQueue >>

\* catch (error) { stats.errors.push(`Row ${i + 1}: ...`) }
Pass1Catch(r) ==
    /\ stats' = [stats EXCEPT !.errors = Append(@, RowError(r))]
    /\ UNCHANGED << components, createdItems, parentQueue >>

\* a queue that keeps only the parents already created when the child is
QueueParent_Eager(queue, id, parentName) ==
    IF Truthy(parentName) /\ parentName \in DOMAIN createdItems
    THEN Append(queue, [id |-> id, parentName |-> parentName])
    ELSE queue

\* a queue that puts the newest child first
QueueParent_Front(queue, id, parentName) ==
    IF Truthy(parentName)
    THEN << [id |-> id, parentName |-> parentName] >> \o queue
    ELSE queue

\* if (parentName) { parentQueue.push({ id: component.id, parentName }) }
QueueParent(queue, id, parentName) ==
    IF Truthy(parentName)
    THEN Append(queue, [id |-> id, parentName |-> parentName])
    ELSE queue

Pass1Create ==
    /\ InPass1
    /\ LET name == getValue(rows[i], "name")
           type == parseType(getValue(rows[i], "type"))
           priority == parsePriority(getValue(rows[i], "priority"))
           parentName == getValue(rows[i], "parentName")
           id == FreshId
       IN  /\ Truthy(name)
           /\ ~MapHas(createdItems, name)
           /\ \E ok \in StoreOutcomes :
                /\ calls' = Append(calls,
                       Call("component.create", name, type, IF ok THEN id ELSE NoId, NoId, ok))
                /\ failures' = Rejected(ok)
                /\ IF ok
                   THEN /\ components' =
                            (id :> [Component(name, type) EXCEPT !.priority = priority])
                                @@ components
                        /\ createdItems' = MapSet(createdItems, name, id)
                        /\ stats' = [stats EXCEPT !.created = @ + 1]
                        /\ parentQueue' = QueueParent(parentQueue, id, parentName)
                   ELSE Pass1Catch(i)
    /\ i' = i + 1
    /\ UNCHANGED << inputs, pc, j, dependencies >>

Pass1Done ==
    /\ pc = "pass1"
    /\ i > Len(rows)
    /\ pc' = "pass2"
    /\ i' = 1
    /\ UNCHANGED << inputs, j, createdItems, parentQueue, stats, components,
                    dependencies, calls, failures >>

(***************************************************************************)
(* Second pass: resolve parent relationships.                              *)
(***************************************************************************)
InPass2 == pc = "pass2" /\ i <= Len(parentQueue)

\* prisma.component.update({ where: { id }, data: { parentId } }) is awaited
\* outside any try: a rejection leaves executeImport as an exception
UpdateParent(id, parentId, ok, log, table) ==
    /\ calls' = Append(log, Call("component.update", <<>>, "", id, parentId, ok))
    /\ IF ok
       THEN /\ components' = [table EXCEPT ![id].parentId = parentId]
            /\ pc' = pc
            /\ i' = i + 1
       ELSE /\ components' = table
            /\ pc' = "threw"
            /\ i' = i

\* a guard that ignores the createMissingParents flag
ShouldCreateParent_IgnoreFlag(parentId) == parentId = NoId

\* `!parentId && createMissingParents`
ShouldCreateParent(parentId) == parentId = NoId /\ createMissingParents

\* a synthesized parent created with the default type
ParentType_Task == "TASK"

\* type: 'EPIC', // Assume missing parents are epics
ParentType == "EPIC"

\* the parent is in createdItems
Pass2Link ==
    /\ InPass2
    /\ LET id == parentQueue[i].id
           parentId == MapGet(createdItems, parentQueue[i].parentName)
       IN  /\ parentId # NoId
           /\ \E ok \in StoreOutcomes :
                /\ UpdateParent(id, parentId, ok, calls, components)
                /\ failures' = Rejected(ok)
    /\ UNCHANGED << inputs, j, createdItems, parentQueue, stats, dependencies >>

\* a catch that reports the rejected create as an error
ParentCatch_Error(st, parentName) ==
    [st EXCEPT !.errors = Append(@, WarnCouldNotCreate(parentName))]

\* a catch that reports nothing
ParentCatch_Silent(st, parentName) == st

\* catch { stats.warnings.push(`Could not create parent "${parentName}"`) }
ParentCatch(st, parentName) ==
    [st EXCEPT !.warnings = Append(@, WarnCouldNotCreate(parentName))]

\* the parent is not in createdItems and createMissingParents is set
Pass2AutoCreate ==
    /\ InPass2
    /\ LET id == parentQueue[i].id
           parentName == parentQueue[i].parentName
           newId == FreshId
       IN  /\ ShouldCreateParent(MapGet(createdItems, parentName))
           /\ \E okCreate \in StoreOutcomes :
                LET log == Append(calls,
                        Call("component.create", parentName, ParentType,
                             IF okCreate THEN newId ELSE NoId, NoId, okCreate))
                IN  IF okCreate
                    THEN /\ createdItems' = MapSet(createdItems, parentName, newId)
                         /\ stats' = [stats EXCEPT
                                !.created = @ + 1,
                                !.warnings = Append(@, WarnAutoCreated(parentName))]
                         /\ \E okUpdate \in StoreOutcomes :
                              /\ UpdateParent(id, newId, okUpdate, log,
                                    (newId :> Component(parentName, ParentType)) @@ components)
                              /\ failures' = Rejected(okUpdate)
                    ELSE /\ stats' = [ParentCatch(stats, parentName) EXCEPT
                                !.warnings = Append(@, WarnParentNotFound(parentName))]
                         /\ calls' = log
                         /\ failures' = Rejected(okCreate)
                         /\ i' = i + 1
                         /\ UNCHANGED << pc, createdItems, components >>
    /\ UNCHANGED << inputs, j, parentQueue, dependencies >>

\* the parent is not in createdItems and createMissingParents is not set
Pass2NotFound ==
    /\ InPass2
    /\ MapGet(createdItems, parentQueue[i].parentName) = NoId
    /\ ~ShouldCreateParent(MapGet(createdItems, parentQueue[i].parentName))
    /\ stats' = [stats EXCEPT
            !.warnings = Append(@, WarnParentNotFound(parentQueue[i].parentName))]
    /\ i' = i + 1
    /\ UNCHANGED << inputs, pc, j, createdItems, parentQueue, components,
                    dependencies, calls, failures >>

Pass2Done ==
    /\ pc = "pass2"
    /\ i > Len(parentQueue)
    /\ pc' = "pass3"
    /\ i' = 1
    /\ UNCHANGED << inputs, j, createdItems, parentQueue, stats, components,
                    dependencies, calls, failures >>

(***************************************************************************)
(* Third pass: resolve dependencies.                                       *)
(***************************************************************************)
InPass3 == pc = "pass3" /\ i <= Len(rows)

\* the dependency names of row r, empty when the row is passed over
\* (`if (!name || !depsRaw) continue`, `if (!componentId) continue`)
DepNames(r) ==
    LET name == getValue(rows[r], "name")
        depsRaw == getValue(rows[r], "dependencies")
    IN  IF ~Truthy(name) \/ ~Truthy(depsRaw) THEN <<>>
        ELSE IF MapGet(createdItems, name) = NoId THEN <<>>
        ELSE SplitList(depsRaw)

\* a loop that leaves the row after its first dependency name
Pass3Advance_NextRow == i' = i + 1 /\ j' = 1

\* a loop that starts the row over after each dependency name
Pass3Advance_Again == i' = i /\ j' = 1

\* after depNames[j]: the next name of the row, or the next row
Pass3Advance ==
    IF j < Len(DepNames(i))
    THEN i' = i /\ j' = j + 1
    ELSE i' = i + 1 /\ j' = 1

\* a row with nothing to resolve
Pass3SkipRow ==
    /\ InPass3
    /\ DepNames(i) = <<>>
    /\ i' = i + 1
    /\ UNCHANGED << inputs, pc, j, createdItems, parentQueue, stats, components,
                    dependencies, calls, failures >>

\* a lookup that sees only the names Pass 1 created
RequiredId_Pass1Only(depName) ==
    IF \E k \in 1..Len(stats.warnings) : stats.warnings[k] = WarnAutoCreated(depName)
    THEN NoId
    ELSE MapGet(createdItems, depName)

\* a lookup by name in the store's component table instead of the run's index
RequiredId_FromStore(depName) ==
    LET held == { c \in DOMAIN components : components[c].name = depName }
    IN  IF held = {} THEN NoId
        ELSE CHOOSE c \in held : \A d \in held : c <= d

\* const requiredId = createdItems.get(depName)
RequiredId(depName) == MapGet(createdItems, depName)

\* the store's dependency table after an accepted dependency.create:
\* one edge per (dependent, required) pair
InsertEdge(table, edge) == table \cup {edge}

\* a catch that reports the rejected insert as an error
DependencyCatch_Error(st) == [st EXCEPT !.errors = Append(@, RowError(i))]

\* catch { // Likely duplicate, ignore }
DependencyCatch(st) == st

\* depNames[j] is in createdItems: prisma.dependency.create, a rejection ignored
Pass3CreateEdge ==
    /\ InPass3
    /\ DepNames(i) # <<>>
    /\ LET componentId == MapGet(createdItems, getValue(rows[i], "name"))
           requiredId == RequiredId(DepNames(i)[j])
       IN  /\ requiredId # NoId
           /\ \E ok \in StoreOutcomes :
                /\ calls' = Append(calls,
                        Call("dependency.create", <<>>, "", componentId, requiredId, ok))
                /\ failures' = Rejected(ok)
                /\ dependencies' =
                        IF ok THEN InsertEdge(dependencies, <<componentId, requiredId>>)
                        ELSE dependencies
                /\ stats' = IF ok THEN stats ELSE DependencyCatch(stats)
    /\ Pass3Advance
    /\ UNCHANGED << inputs, pc, createdItems, parentQueue, components >>

\* depNames[j] is not in createdItems
Pass3DepNotFound ==
    /\ InPass3
    /\ DepNames(i) # <<>>
    /\ RequiredId(DepNames(i)[j]) = NoId
    /\ stats' = [stats EXCEPT !.warnings =
            Append(@, WarnDepNotFound(getValue(rows[i], "name"), DepNames(i)[j]))]
    /\ Pass3Advance
    /\ UNCHANGED << inputs, pc, createdItems, parentQueue, components,
                    dependencies, calls, failures >>

\* return { projectId, stats }
Pass3Done ==
    /\ pc = "pass3"
    /\ i > Len(rows)
    /\ pc' = "done"
    /\ UNCHANGED << inputs, i, j, createdItems, parentQueue, stats, components,
                    dependencies, calls, failures >>

Next ==
    \/ Pass1SkipNoName
    \/ Pass1SkipDuplicate
    \/ Pass1Create
    \/ Pass1Done
    \/ Pass2Link
    \/ Pass2AutoCreate
    \/ Pass2NotFound
    \/ Pass2Done
    \/ Pass3SkipRow
    \/ Pass3CreateEdge
    \/ Pass3DepNotFound
    \/ Pass3Done

Spec == Init /\ [][Next]_vars

(***************************************************************************)
(* The same call on batches with several columns mapped to one field and   *)
(* with source columns listed twice.                                       *)
(***************************************************************************)
ColumnMappings ==
    { << Pair("c1", "name"), Pair("c2", "name"), Pair("c3", "parentName") >>,
      << Pair("c1", "name"), Pair("c2", "name"), Pair("c3", "dependencies") >>,
      << Pair("c2", "name"), Pair("c1", "name"), Pair("c3", "parentName") >>,
      << Pair("c1", "parentName"), Pair("c2", "name"), Pair("c1", "name"),
         Pair("c3", "dependencies") >> }

ColumnRows ==
    { r \in [Cols -> { <<>>, <<" ">>, <<"A">>, <<"B", " ">>, <<"C">> }] :
        /\ r["c1"] \in { <<>>, <<" ">>, <<"A">> }
        /\ r["c2"] \in { <<>>, <<"B", " ">>, <<"A">> }
        /\ r["c3"] = <<"A">> }

ColumnBatches == UNION { [1..n -> ColumnRows] : n \in 1..MaxRows }

InitColumns ==
    /\ mappings \in ColumnMappings
    /\ rows \in ColumnBatches
    /\ Start

SpecColumns == InitColumns /\ [][Next]_vars

(***************************************************************************)
(* The same call on batches whose names differ in letter case only.        *)
(***************************************************************************)
CaseRows ==
    { r \in [Cols -> { <<>>, <<"A">>, <<"a">>, <<"C">>, <<"A", ",", "b">> }] :
        /\ r["c1"] \in { <<>>, <<"A">>, <<"a">> }
        /\ r["c2"] \in { <<>>, <<"a">>, <<"C">> }
        /\ r["c3"] \in { <<>>, <<"A", ",", "b">> } }

CaseBatches == UNION { [1..n -> CaseRows] : n \in 1..MaxRows }

InitCase ==
    /\ mappings = StdMapping
    /\ rows \in CaseBatches
    /\ Start

SpecCase == InitCase /\ [][Next]_vars

(***************************************************************************)
(* The same call on batches with a priority column: the first row carries  *)
(* the priority text, in a batch mapped with a parent column or with a     *)
(* dependencies column.                                                    *)
(***************************************************************************)
PriorityMappings ==
    { << Pair("c1", "name"), Pair("c2", "priority"), Pair("c3", "parentName") >>,
      << Pair("c1", "name"), Pair("c2", "priority"), Pair("c3", "dependencies") >> }

PriorityCells ==
    { <<>>,
      <<"c", "r", "i", "t", "i", "c", "a", "l">>,
      <<"H", "i", "g", "h", "e", "s", "t">>,
      <<"p", "0">>,
      <<"P", "0">>,
      <<"x", "p", "0">>,
      <<"h", "i", "g", "h">>,
      <<"p", "1">>,
      <<"M", "e", "d", "i", "u", "m">>,
      <<"p", "2">>,
      <<"l", "o", "w">>,
      <<"p", "3">>,
      <<"l", "o", "w", "e", "s", "t">>,
      <<"L", "O", "W", "E", "S", "T">>,
      <<"p", "4">>,
      <<"P", "4">>,
      <<"s", "l", "o", "w">>,
      <<"0">>,
      <<"3">>,
      <<"5">>,
      <<"7">>,
      <<"1", "2">>,
      <<"-", "3">>,
      <<"+", "2">>,
      <<"4", ".", "5">>,
      <<"3", " ", "d", "a", "y", "s">>,
      <<"a", "b", "c">>,
      <<"p", "5">>,
      <<"-">>,
      <<"2", "x">>,
      <<" ", "4", " ">> }

PriorityRows ==
    { r \in [Cols -> PriorityCells \cup { <<"A">>, <<"C">> }] :
        /\ r["c1"] = <<"A">>
        /\ r["c2"] \in PriorityCells
        /\ r["c3"] \in { <<"A">>, <<"C">> } }

\* the rows after the first: no name, a repeated name, a second name
FollowRows ==
    { r \in [Cols -> { <<>>, <<"A">>, <<"B">>, <<"C">>, <<"P", "4">> }] :
        /\ r["c1"] \in { <<>>, <<"A">>, <<"B">> }
        /\ r["c2"] \in { <<>>, <<"P", "4">> }
        /\ r["c3"] \in { <<"A">>, <<"C">> } }

PriorityBatches ==
    UNION { { <<r>> \o t : r \in PriorityRows, t \in [1..n -> FollowRows] } :
            n \in 0..(MaxRows - 1) }

InitPriority ==
    /\ mappings \in PriorityMappings
    /\ rows \in PriorityBatches
    /\ Start

SpecPriority == InitPriority /\ [][Next]_vars

(***************************************************************************)
(* Vocabulary of the properties.                                           *)
(***************************************************************************)
\* the name the current Pass 1 row maps to
RowName == getValue(rows[i], "name")

\* the current parent-queue entry
Entry == parentQueue[i]

\* the positions of a log that hold component.create calls
CreateCalls(log) == { k \in 1..Len(log) : log[k].op = "component.create" }

\* the positions of a log that hold accepted component.create calls for a name
CreatedAs(log, name) == { k \in CreateCalls(log) : log[k].ok /\ log[k].name = name }

\* the positions of a warnings list that hold a given warning
Occurrences(ws, w) == { k \in 1..Len(ws) : ws[k] = w }

\* the step made exactly n store calls
MadeCalls(n) == Len(calls') = Len(calls) + n /\ SubSeq(calls', 1, Len(calls)) = calls

\* the k-th store call of the step
StepCall(k) == calls'[Len(calls) + k]

\* no pair of the mapping targets `name`
NoNameTarget == \A k \in 1..Len(mappings) : mappings[k].targetField # "name"

\* the parent-queue entries Pass 2 has gone through
Processed == IF pc = "pass2" THEN 1..(i - 1)
             ELSE IF pc \in {"pass3", "done"} THEN 1..Len(parentQueue)
             ELSE {}

(***************************************************************************)
(* C1: in Pass 1 a row whose mapped name is blank or already a key of      *)
(* createdItems adds exactly 1 to skipped, leaves created alone, makes no  *)
(* store call and leaves createdItems (and the store) unchanged.           *)
(***************************************************************************)
C1_BlankOrDuplicateSkipped ==
    [][ (InPass1 /\ (~Truthy(RowName) \/ RowName \in DOMAIN createdItems))
        => /\ stats'.skipped = stats.skipped + 1
           /\ stats'.created = stats.created
           /\ calls' = calls
           /\ createdItems' = createdItems
           /\ components' = components
           /\ parentQueue' = parentQueue ]_vars

\* rows X, X have gone through Pass 1: one created, one skipped as a duplicate
C1_Witness ==
    /\ pc = "pass2"
    /\ stats.created = 1
    /\ stats.skipped = 1
    /\ \E k \in 1..Len(stats.warnings) : stats.warnings[k].kind = "Skipped duplicate"

(***************************************************************************)
(* C2: every component the run created is in createdItems under its own    *)
(* name with its own id, and an entry of createdItems is never overwritten *)
(* or removed.                                                             *)
(***************************************************************************)
C2_Indexed ==
    \A id \in DOMAIN components :
        /\ components[id].name \in DOMAIN createdItems
        /\ createdItems[components[id].name] = id

C2_NameIndexStable ==
    /\ []C2_Indexed
    /\ [][ \A n \in DOMAIN createdItems :
             n \in DOMAIN createdItems' /\ createdItems'[n] = createdItems[n] ]_vars

\* a run that created a row's component and synthesized a parent has returned
C2_Witness ==
    /\ pc = "done"
    /\ \E k \in CreateCalls(calls) : calls[k].ok /\ calls[k].type = "TASK"
    /\ \E k \in CreateCalls(calls) : calls[k].ok /\ calls[k].type = "EPIC"

(***************************************************************************)
(* C3: no component ever has parentId equal to its own id.                 *)
(***************************************************************************)
C3_NoSelfParent ==
    \A id \in DOMAIN components : components[id].parentId # id

(***************************************************************************)
(* C4: no dependency edge ever has dependentId = requiredId: Pass 3 makes  *)
(* no dependency.create call for a row's own name.                         *)
(***************************************************************************)
C4_NoSelfDependency ==
    /\ \A e \in dependencies : e[1] # e[2]
    /\ \A k \in 1..Len(calls) :
          calls[k].op = "dependency.create" => calls[k].id # calls[k].ref

(***************************************************************************)
(* C5: when no pair of the mapping targets `name`, the call fails before   *)
(* Pass 1: nothing is created and no report is returned.                   *)
(***************************************************************************)
C5_NoNameMappingFails ==
    NoNameTarget =>
        /\ pc # "done"
        /\ DOMAIN components = {}

(***************************************************************************)
(* C6: a rejected component.create in Pass 1 appends exactly the entry     *)
(* "Row i: <message>" to errors, changes neither created, skipped nor      *)
(* warnings, adds nothing to createdItems or to the parent queue, and the  *)
(* loop goes on with the next row.                                         *)
(***************************************************************************)
C6_CreateFailureIsRowError ==
    [][ (InPass1 /\ MadeCalls(1) /\ ~StepCall(1).ok)
        => /\ StepCall(1).op = "component.create"
           /\ stats' = [stats EXCEPT !.errors = Append(@, RowError(i))]
           /\ createdItems' = createdItems
           /\ parentQueue' = parentQueue
           /\ components' = components
           /\ pc' = "pass1"
           /\ i' = i + 1 ]_vars

\* the first row's create was rejected and a later row was created
C6_Witness ==
    /\ Len(stats.errors) = 1
    /\ stats.errors[1] = RowError(1)
    /\ stats.created = 1
    /\ pc = "done"

(***************************************************************************)
(* C7: a rejected component.update in Pass 2 does not abort the call: the  *)
(* call never ends by an exception.                                        *)
(***************************************************************************)
C7_UpdateFailureContinues ==
    (\E k \in 1..Len(calls) : calls[k].op = "component.update" /\ ~calls[k].ok)
        => pc \in {"pass2", "pass3", "done"}

(***************************************************************************)
(* C8: with createMissingParents = false, a queue entry whose parentName   *)
(* is not in createdItems makes no store call, leaves the child's parentId *)
(* unset, appends exactly the warning "Parent not found" for that name and *)
(* leaves created and createdItems unchanged; the parentId stays unset.    *)
(***************************************************************************)
C8_StaysUnset ==
    ~createMissingParents =>
        \A k \in Processed :
            parentQueue[k].parentName \notin DOMAIN createdItems
                => components[parentQueue[k].id].parentId = NoId

C8_MissingParentWarned ==
    /\ []C8_StaysUnset
    /\ [][ (InPass2 /\ ~createMissingParents
                    /\ Entry.parentName \notin DOMAIN createdItems)
           => /\ calls' = calls
              /\ components' = components
              /\ components[Entry.id].parentId = NoId
              /\ stats' = [stats EXCEPT
                    !.warnings = Append(@, WarnParentNotFound(Entry.parentName))]
              /\ createdItems' = createdItems ]_vars

\* a child of the missing parent "C" came out of a run without auto-creation
C8_Witness ==
    /\ ~createMissingParents
    /\ pc = "done"
    /\ WarnParentNotFound(<<"C">>) \in { stats.warnings[k] : k \in 1..Len(stats.warnings) }
    /\ stats.created >= 1

(***************************************************************************)
(* C9: with createMissingParents = true, a queue entry whose parentName is *)
(* not in createdItems and whose create the store accepts makes exactly    *)
(* one component.create, of an EPIC named parentName; created grows by 1,  *)
(* createdItems gains parentName -> new id, exactly the warning            *)
(* "Auto-created parent Epic" is appended, and the child's update is       *)
(* requested with the new id, which sets its parentId once accepted.       *)
(***************************************************************************)
C9_ParentAutoCreated ==
    [][ (InPass2 /\ createMissingParents
                 /\ Entry.parentName \notin DOMAIN createdItems
                 /\ Len(calls') > Len(calls) /\ StepCall(1).ok)
        => LET newId == StepCall(1).id
           IN  /\ MadeCalls(2)
               /\ newId \notin DOMAIN components
               /\ newId # NoId
               /\ StepCall(1) = Call("component.create", Entry.parentName, "EPIC",
                                     newId, NoId, TRUE)
               /\ DOMAIN components' = DOMAIN components \cup {newId}
               /\ components'[newId] = Component(Entry.parentName, "EPIC")
               /\ stats' = [stats EXCEPT
                     !.created = @ + 1,
                     !.warnings = Append(@, WarnAutoCreated(Entry.parentName))]
               /\ DOMAIN createdItems' = DOMAIN createdItems \cup {Entry.parentName}
               /\ createdItems'[Entry.parentName] = newId
               /\ \A n \in DOMAIN createdItems : createdItems'[n] = createdItems[n]
               /\ StepCall(2).op = "component.update"
               /\ StepCall(2).id = Entry.id
               /\ StepCall(2).ref = newId
               /\ StepCall(2).ok => components'[Entry.id].parentId = newId ]_vars

\* the scenario Checkout with parent "Missing Epic": two components, one warning
C9_Witness ==
    /\ createMissingParents
    /\ pc = "done"
    /\ Len(rows) = 1
    /\ stats.created = 2
    /\ stats.warnings = << WarnAutoCreated(<<"C">>) >>
    /\ components[1].parentId = 2
    /\ components[2].type = "EPIC"

(***************************************************************************)
(* C10: a missing parent named by several queue entries is synthesized     *)
(* once: no name is created twice or announced twice, an entry whose       *)
(* parentName is already in createdItems makes no create call and appends  *)
(* no warning, and the children of one parentName that were linked are all *)
(* linked to the same id.                                                  *)
(***************************************************************************)
C10_OneParent ==
    /\ \A n \in DOMAIN createdItems : Cardinality(CreatedAs(calls, n)) = 1
    /\ \A k \in 1..Len(parentQueue) :
          Cardinality(Occurrences(stats.warnings,
                                  WarnAutoCreated(parentQueue[k].parentName))) <= 1
    /\ \A k1 \in Processed, k2 \in Processed :
          (/\ k1 < k2
           /\ parentQueue[k1].parentName = parentQueue[k2].parentName
           /\ components[parentQueue[k1].id].parentId # NoId)
          => /\ components[parentQueue[k2].id].parentId
                    = components[parentQueue[k1].id].parentId
             /\ components[parentQueue[k2].id].parentId
                    = createdItems[parentQueue[k1].parentName]

C10_SynthesizedOnce ==
    /\ []C10_OneParent
    /\ [][ (InPass2 /\ Entry.parentName \in DOMAIN createdItems)
           => /\ CreateCalls(calls') = CreateCalls(calls)
              /\ stats' = stats
              /\ createdItems' = createdItems
              /\ MadeCalls(1)
              /\ StepCall(1).op = "component.update"
              /\ StepCall(1).id = Entry.id
              /\ StepCall(1).ref = createdItems[Entry.parentName] ]_vars

\* two children of the missing parent "C": one synthesis, both linked to it
C10_Witness ==
    /\ pc = "done"
    /\ Len(parentQueue) = 2
    /\ parentQueue[1].parentName = <<"C">>
    /\ parentQueue[2].parentName = <<"C">>
    /\ Cardinality(CreatedAs(calls, <<"C">>)) = 1
    /\ components[parentQueue[1].id].parentId = createdItems[<<"C">>]
    /\ components[parentQueue[2].id].parentId = createdItems[<<"C">>]

\* the elements of a list
Elems(q) == { q[k] : k \in 1..Len(q) }

\* row r has gone through Pass 1 and created a component
RowCreated(r) ==
    /\ pc # "pass1" \/ r < i
    /\ Truthy(getValue(rows[r], "name"))
    /\ RowError(r) \notin Elems(stats.errors)
    /\ WarnDuplicate(r, getValue(rows[r], "name")) \notin Elems(stats.warnings)

\* the warnings Pass 2 can append for a parent name
ParentWarnings(name) ==
    { WarnAutoCreated(name), WarnCouldNotCreate(name), WarnParentNotFound(name) }

(***************************************************************************)
(* C11: parent resolution does not depend on file order: once Pass 2 is    *)
(* over, a row whose parentName is the name of a row that created a        *)
(* component, before or after it in the file, has that component's id as   *)
(* parentId; that name was created once and Pass 2 warned about it never.  *)
(***************************************************************************)
C11_OrderIndependent ==
    pc \in {"pass3", "done"} =>
        LET names == [p \in 1..Len(rows) |-> getValue(rows[p], "name")]
        IN  \A r \in 1..Len(rows) :
            LET parent == getValue(rows[r], "parentName")
            IN  \A p \in 1..Len(rows) :
                    (/\ parent = names[p]
                     /\ RowCreated(r)
                     /\ RowCreated(p))
                    => LET child == createdItems[names[r]]
                       IN  /\ components[child].parentId = createdItems[parent]
                           /\ Cardinality(CreatedAs(calls, parent)) = 1
                           /\ ParentWarnings(parent) \cap Elems(stats.warnings) = {}

\* the scenario Checkout (parent Shop), Shop: the parent comes later in the file
C11_Witness ==
    /\ pc = "done"
    /\ createMissingParents
    /\ Len(rows) = 2
    /\ getValue(rows[1], "parentName") = getValue(rows[2], "name")
    /\ getValue(rows[1], "name") # getValue(rows[2], "name")
    /\ stats.created = 2
    /\ stats.warnings = <<>>
    /\ components[1].parentId = 2

\* the dependency names row r declares: its dependencies cell split on commas,
\* trimmed, empties dropped; none when the row has no component
DeclaredDeps(r) ==
    LET name == getValue(rows[r], "name")
        raw == getValue(rows[r], "dependencies")
    IN  IF Truthy(name) /\ name \in DOMAIN createdItems /\ Truthy(raw)
        THEN SplitList(raw)
        ELSE <<>>

\* the positions of row r's declared names that are not the row's own name and
\* are (found = TRUE) or are not (found = FALSE) keys of createdItems
OtherDeps(r, found) ==
    LET deps == DeclaredDeps(r)
        name == getValue(rows[r], "name")
    IN  { k \in 1..Len(deps) :
            /\ deps[k] # name
            /\ (deps[k] \in DOMAIN createdItems) = found }

RECURSIVE SumOtherDeps(_, _)
SumOtherDeps(r, found) ==
    IF r = 0 THEN 0
    ELSE Cardinality(OtherDeps(r, found)) + SumOtherDeps(r - 1, found)

\* the dependency.create calls of a log whose two ids differ
EdgeCalls(log) ==
    { k \in 1..Len(log) : log[k].op = "dependency.create" /\ log[k].id # log[k].ref }

\* the "Dependency not found" warnings of a list
DepWarnings(ws) == { k \in 1..Len(ws) : ws[k].kind = "Dependency not found" }

\* Pass 3 is at a declared dependency name of row i
AtDep == InPass3 /\ j <= Len(DeclaredDeps(i))

\* that name
CurrentDep == DeclaredDeps(i)[j]

(***************************************************************************)
(* C12: in Pass 3, for a row with a component and each name of its         *)
(* dependencies list other than its own name, exactly one thing happens:   *)
(* the name is in createdItems and dependency.create(row's id, name's id)  *)
(* is requested, the report untouched; or it is not and exactly the        *)
(* warning "Dependency not found: row depends on name" is appended, with   *)
(* no store call and nothing added to errors. Once the call has returned,  *)
(* every such name has had its call or its warning.                        *)
(***************************************************************************)
C12_AllResolved ==
    pc = "done" =>
        /\ Cardinality(EdgeCalls(calls)) = SumOtherDeps(Len(rows), TRUE)
        /\ Cardinality(DepWarnings(stats.warnings)) = SumOtherDeps(Len(rows), FALSE)

C12_DependencyResolved ==
    /\ []C12_AllResolved
    /\ [][ InPass3 =>
            LET name == getValue(rows[i], "name")
                deps == DeclaredDeps(i)
            IN  (j <= Len(deps) /\ deps[j] # name)
                => IF deps[j] \in DOMAIN createdItems
                   THEN /\ MadeCalls(1)
                        /\ StepCall(1).op = "dependency.create"
                        /\ StepCall(1).id = createdItems[name]
                        /\ StepCall(1).ref = createdItems[deps[j]]
                        /\ stats' = stats
                   ELSE /\ calls' = calls
                        /\ stats' = [stats EXCEPT !.warnings =
                              Append(@, WarnDepNotFound(name, deps[j]))]
                        /\ dependencies' = dependencies ]_vars

\* the scenario A (dependencies B, C), B: one edge A requires B, one warning for C
C12_Witness ==
    /\ pc = "done"
    /\ Len(rows) = 2
    /\ stats.created = 2
    /\ dependencies = { <<1, 2>> }
    /\ Occurrences(stats.warnings, WarnDepNotFound(<<"A">>, <<"C">>)) # {}
    /\ Cardinality(DepWarnings(stats.warnings)) = 1

(***************************************************************************)
(* C13: a row that Pass 1 skipped (blank or duplicate name) contributes    *)
(* nothing in Pass 3: its step makes no store call and appends no warning. *)
(***************************************************************************)
C13_SkippedRowSilent ==
    [][ (/\ InPass3
         /\ \/ WarnNoName(i) \in Elems(stats.warnings)
            \/ WarnDuplicate(i, getValue(rows[i], "name")) \in Elems(stats.warnings))
        => /\ calls' = calls
           /\ stats' = stats
           /\ dependencies' = dependencies ]_vars

(***************************************************************************)
(* C14 as claimed: a dependency name that is not a key of createdItems as  *)
(* it stood at the end of Pass 1 (a name only a synthesized parent bears)  *)
(* gets no store call and the warning "Dependency not found".              *)
(***************************************************************************)
\* the names Pass 2 synthesized
Synthesized == { n \in DOMAIN createdItems : WarnAutoCreated(n) \in Elems(stats.warnings) }

C14_AfterPass2 ==
    \A k1 \in 1..Len(calls), k2 \in 1..Len(calls) :
        (calls[k1].op = "dependency.create" /\ calls[k2].op # "dependency.create")
            => k2 < k1

C20_EdgeEndsInBatch ==
    \A k \in 1..Len(calls) :
        calls[k].op = "dependency.create" =>
            \A x \in { calls[k].id, calls[k].ref } :
                /\ x \in DOMAIN components
                /\ components[x].name \in DOMAIN createdItems
                /\ createdItems[components[x].name] = x
                /\ \E c \in CreateCalls(calls) : c < k /\ calls[c].ok /\ calls[c].id = x

\* an edge between two components of the batch was requested and stored
C20_Witness ==
    /\ pc = "done"
    /\ \E k \in EdgeCalls(calls) :
          calls[k].ok /\ <<calls[k].id, calls[k].ref>> \in dependencies

(***************************************************************************)
(* C17 as claimed: getValue looks only at the first pair of the mapping    *)
(* list whose targetField is the field: that column's cell trimmed when    *)
(* the cell is non-empty, none otherwise, never a later column.            *)
(***************************************************************************)
TargetFields == { "name", "parentName", "dependencies" }

\* the positions of the mapping list whose pair targets the field
PairsFor(field) == { k \in 1..Len(mappings) : mappings[k].targetField = field }

FirstPairOnly(row, field) ==
    IF PairsFor(field) = {} THEN Undefined
    ELSE LET k == CHOOSE x \in PairsFor(field) : \A y \in PairsFor(field) : x <= y
             cell == row[mappings[k].sourceColumn]
         IN  IF cell # <<>> THEN Trim(cell) ELSE Undefined

\* the passes use the values F gives: a row is skipped in Pass 1 exactly when
\* F gives it no name, it is created under the name F gives and queued under
\* the parent F gives, and Pass 3 passes over a row F gives no dependencies
UsesValues(F(_, _)) ==
    /\ InPass1 =>
          /\ ~Truthy(F(rows[i], "name")) => calls' = calls
          /\ Len(calls') > Len(calls) =>
                /\ StepCall(1).name = F(rows[i], "name")
                /\ StepCall(1).ok =>
                      parentQueue' =
                          IF Truthy(F(rows[i], "parentName"))
                          THEN Append(parentQueue,
                                 [id |-> StepCall(1).id,
                                  parentName |-> F(rows[i], "parentName")])
                          ELSE parentQueue
    /\ (InPass3 /\ ~Truthy(F(rows[i], "dependencies"))) =>
          calls' = calls /\ stats' = stats

PairsOf(col) ==
    { k \in 1..Len(mappings) :
        mappings[k].sourceColumn = col /\ mappings[k].targetField # Null }

Least(S) == CHOOSE x \in S : \A y \in S : x <= y
Greatest(S) == CHOOSE x \in S : \A y \in S : x >= y

\* the columns mapped to the field whose cell in the row is non-empty
FilledColumns(row, field) ==
    { col \in Cols :
        /\ PairsOf(col) # {}
        /\ mappings[Greatest(PairsOf(col))].targetField = field
        /\ row[col] # <<>> }

FirstFilled(row, field) ==
    IF FilledColumns(row, field) = {} THEN Undefined
    ELSE LET col == CHOOSE c \in FilledColumns(row, field) :
                        \A d \in FilledColumns(row, field) :
                            Least(PairsOf(c)) <= Least(PairsOf(d))
         IN  Trim(row[col])

C17_Values ==
    \A r \in 1..Len(rows), f \in TargetFields :
        getValue(rows[r], f) = FirstFilled(rows[r], f)

C18_UniqueIgnoringCase ==
    \A x \in DOMAIN components, y \in DOMAIN components :
        x # y => ToLowerCase(components[x].name) # ToLowerCase(components[y].name)

(***************************************************************************)
(* C18 amended: names are unique under exact, case-sensitive comparison:   *)
(* no two components a run created have the same name, and a row whose     *)
(* name differs from an existing key of createdItems in letter case only   *)
(* is not a duplicate: a create is requested for it.                       *)
(***************************************************************************)
C18_Distinct ==
    \A x \in DOMAIN components, y \in DOMAIN components :
        x # y => components[x].name # components[y].name

C18_UniqueExact ==
    /\ []C18_Distinct
    /\ [][ (/\ InPass1
            /\ Truthy(RowName)
            /\ RowName \notin DOMAIN createdItems
            /\ \E n \in DOMAIN createdItems : ToLowerCase(n) = ToLowerCase(RowName))
           => /\ MadeCalls(1)
              /\ StepCall(1).op = "component.create"
              /\ StepCall(1).name = RowName
              /\ stats'.skipped = stats.skipped ]_vars

\* rows named "A" and "a" both created a component
C18_Witness ==
    /\ pc = "done"
    /\ \E x \in DOMAIN components, y \in DOMAIN components :
          components[x].name = <<"A">> /\ components[y].name = <<"a">>

(***************************************************************************)
(* C19: parsePriority maps the keyword classes to the stated levels: a     *)
(* text containing "critical" or "highest" or equal to "p0" gives 5, a     *)
(* text containing "lowest" or equal to "p4" gives 1, whatever the letter  *)
(* case; a text matching no keyword is parsed as an integer clamped to     *)
(* 0..5, else 0.  Stated of the priority each Pass 1 create stores.        *)
(***************************************************************************)
\* the priority text of the current Pass 1 row, lower-cased
PriorityText ==
    LET text == getValue(rows[i], "priority")
    IN  IF Truthy(text) THEN ToLowerCase(text) ELSE <<>>

KeywordTexts == { <<"c", "r", "i", "t", "i", "c", "a", "l">>, <<"h", "i", "g", "h", "e", "s", "t">>, <<"h", "i", "g", "h">>, <<"m", "e", "d", "i", "u", "m">>, <<"l", "o", "w">>, <<"l", "o", "w", "e", "s", "t">> }
CodeTexts == { <<"p", "0">>, <<"p", "1">>, <<"p", "2">>, <<"p", "3">>, <<"p", "4">> }

MatchesKeyword(lower) ==
    \/ \E w \in KeywordTexts : Includes(lower, w)
    \/ lower \in CodeTexts

\* the integer a text with no keyword stands for: clamped to 0..5, else 0
ClampedInteger(text) ==
    IF text = <<>> \/ ParseInt(text).nan THEN 0
    ELSE IF ParseInt(text).val < 0 THEN 0
    ELSE IF ParseInt(text).val > 5 THEN 5
    ELSE ParseInt(text).val

HighestClass(lower) ==
    \/ Includes(lower, <<"c", "r", "i", "t", "i", "c", "a", "l">>)
    \/ Includes(lower, <<"h", "i", "g", "h", "e", "s", "t">>)
    \/ lower = <<"p", "0">>

LowestClass(lower) ==
    \/ Includes(lower, <<"l", "o", "w", "e", "s", "t">>)
    \/ lower = <<"p", "4">>

C19_StoredLevel(p) ==
    /\ HighestClass(PriorityText) => p = 5
    /\ (LowestClass(PriorityText) /\ ~HighestClass(PriorityText)) => p = 1
    /\ ~MatchesKeyword(PriorityText) => p = ClampedInteger(PriorityText)

C19_KeywordLevels ==
    [][ (InPass1 /\ components' # components)
           => C19_StoredLevel(components'[FreshId].priority) ]_vars

\* the levels of the other classes, which the code does give: "critical",
\* "highest", "p0" 5, "p4" 1, and the clamped integer of a text with no keyword
C19_OtherLevels ==
    [][ (InPass1 /\ components' # components)
           => LET p == components'[FreshId].priority
              IN  /\ HighestClass(PriorityText) => p = 5
                  /\ PriorityText = <<"p", "4">> => p = 1
                  /\ ~MatchesKeyword(PriorityText) => p = ClampedInteger(PriorityText) ]_vars

(***************************************************************************)
(* Two runs of executeImport on the same parsedInput, one after the other, *)
(* against the store the first run left: the second run starts from fresh  *)
(* locals, the store gives it new ids and answers its calls as it likes.   *)
(* `earlier` keeps what the first run returned and how it was answered.    *)
(***************************************************************************)
\* the components this run created: the store held earlier.base before it
RunIds == { c \in DOMAIN components : c > earlier.base }

\* the names of the accepted component.create calls of this run, in order
CreationOrder ==
    LET RECURSIVE Names(_)
        Names(k) ==
            IF k = 0 THEN <<>>
            ELSE IF calls[k].op = "component.create" /\ calls[k].ok
                 THEN Append(Names(k - 1), calls[k].name)
                 ELSE Names(k - 1)
    IN  Names(Len(calls))

\* child name -> parent name, over the components of this run
RunLinks ==
    { << components[c].name, components[components[c].parentId].name >> :
        c \in { x \in RunIds : components[x].parentId # NoId } }

\* dependent name -> required name, over the edges between components of this run
RunEdges ==
    { << components[e[1]].name, components[e[2]].name >> :
        e \in { d \in dependencies : d[1] \in RunIds /\ d[2] \in RunIds } }

\* how the store answered this run's calls, in order
Outcomes == [k \in 1..Len(calls) |-> calls[k].ok]

RunSummary ==
    [ran |-> TRUE, created |-> stats.created, skipped |-> stats.skipped,
     order |-> CreationOrder, links |-> RunLinks, edges |-> RunEdges,
     outcomes |-> Outcomes, base |-> Cardinality(DOMAIN components)]

\* executeImport is called again with the same parsedInput
RunAgain ==
    /\ pc \in {"done", "threw"}
    /\ ~earlier.ran
    /\ earlier' = RunSummary
    /\ pc' = "pass1"
    /\ i' = 1
    /\ j' = 1
    /\ createdItems' = [n \in {} |-> NoId]
    /\ parentQueue' = <<>>
    /\ stats' = [created |-> 0, skipped |-> 0, errors |-> <<>>, warnings |-> <<>>]
    /\ calls' = <<>>
    /\ failures' = 0
    /\ UNCHANGED << mappings, rows, createMissingParents, components, dependencies >>

NextTwice == Next \/ RunAgain

\* the rows of the batches that are run twice: a row under parent "A" declares
\* dependencies, a row under parent "C" declares none
TwiceRows ==
    { r \in RowSet :
        \/ r["c2"] = <<"A">> /\ r["c3"] # <<>>
        \/ r["c2"] = <<"C">> /\ r["c3"] = <<>> }

TwiceBatches == UNION { [1..n -> TwiceRows] : n \in 1..MaxRows }

InitTwice ==
    /\ mappings \in MappingSet
    /\ rows \in TwiceBatches
    /\ Start

SpecTwice == InitTwice /\ [][NextTwice]_vars

(***************************************************************************)
(* C16: executeImport is deterministic: when the store answers the calls   *)
(* of a second run on the same rows, mappings and createMissingParents as  *)
(* it answered the calls of the first, the second run ends with the same   *)
(* created and skipped counts, the same creation order of names, the same  *)
(* child-name to parent-name links and the same dependent-name to          *)
(* required-name edges, although its components carry other ids.           *)
(***************************************************************************)
\* the store answered each call of this run as it answered the call at the
\* same position of the run before
SameAnswers ==
    \A k \in 1..Len(calls) :
        k <= Len(earlier.outcomes) => calls[k].ok = earlier.outcomes[k]

C16_Deterministic ==
    (earlier.ran /\ pc \in {"done", "threw"} /\ SameAnswers)
        => /\ stats.created = earlier.created
           /\ stats.skipped = earlier.skipped
           /\ CreationOrder = earlier.order
           /\ RunLinks = earlier.links
           /\ RunEdges = earlier.edges

\* a second run, answered as the first, returned: both created components,
\* skipped a row, linked a child and inserted an edge, under different ids
C16_Witness ==
    /\ earlier.ran
    /\ pc = "done"
    /\ SameAnswers
    /\ earlier.created > 1
    /\ earlier.skipped > 0
    /\ earlier.links # {}
    /\ earlier.edges # {}
    /\ \E k \in 1..Len(calls) : ~calls[k].ok
    /\ RunIds # {}
    /\ RunIds # DOMAIN components

(***************************************************************************)
(* C21: parentId is written only in Pass 2, after every Pass 1 row has     *)
(* been processed, and every parentId written is the id of a component     *)
(* that exists in the batch by the end of that step (created in Pass 1 or  *)
(* synthesized in Pass 2); Pass 1 leaves every created item's parentId     *)
(* unset and creates no dependency edge.                                   *)
(***************************************************************************)
\* how many parents Pass 2 has synthesized
SynthesizedCount ==
    Cardinality({ k \in 1..Len(stats.warnings) :
                    stats.warnings[k].kind = WarnAutoCreated(<<>>).kind })

\* how many rows Pass 1 has created, skipped or reported as errors
RowsAccounted ==
    (stats.created - SynthesizedCount) + stats.skipped + Len(stats.errors)

C21_Pass1Unlinked ==
    pc = "pass1" =>
        /\ \A c \in DOMAIN components : components[c].parentId = NoId
        /\ dependencies = {}
        /\ \A k \in 1..Len(calls) : calls[k].op = "component.create"

\* the step gives component c a parentId it did not have
WritesParent(c) ==
    /\ components'[c].parentId # NoId
    /\ c \in DOMAIN components => components'[c].parentId # components[c].parentId

C21_ParentWrittenInPass2 ==
    /\ []C21_Pass1Unlinked
    /\ [][ \A c \in DOMAIN components' :
             WritesParent(c)
             => /\ pc = "pass2"
                /\ RowsAccounted = Len(rows)
                /\ components'[c].parentId \in DOMAIN components'
                /\ \E k \in CreateCalls(calls') :
                      calls'[k].ok /\ calls'[k].id = components'[c].parentId ]_vars

\* one child was put under a row's component and another under a parent
\* synthesized in Pass 2
C21_Witness ==
    /\ pc = "done"
    /\ SynthesizedCount = 1
    /\ \E c \in DOMAIN components, d \in DOMAIN components :
          /\ components[c].parentId # NoId
          /\ components[d].parentId # NoId
          /\ components[components[c].parentId].type = ParentType
          /\ components[components[d].parentId].type # ParentType

(***************************************************************************)
(* C22: Pass 2 never appends to errors and never changes skipped, for any  *)
(* batch, either value of createMissingParents and any outcome of the      *)
(* create call for a missing parent; a child whose parent is neither found *)
(* nor synthesized stays created with parentId unset.                      *)
(***************************************************************************)
\* the entries of the parent queue whose parent name is in no index entry
Orphans ==
    { k \in 1..Len(parentQueue) : parentQueue[k].parentName \notin DOMAIN createdItems }

C22_OrphansStay ==
    pc \in {"pass3", "done"} =>
        \A k \in Orphans :
            /\ parentQueue[k].id \in DOMAIN components
            /\ components[parentQueue[k].id].parentId = NoId

C22_Pass2OnlyWarns ==
    /\ []C22_OrphansStay
    /\ [][ pc = "pass2" =>
             /\ stats'.errors = stats.errors
             /\ stats'.skipped = stats.skipped
             /\ (InPass2 /\ Entry.parentName \notin DOMAIN createdItems')
                => /\ components' = components
                   /\ Entry.id \in DOMAIN components
                   /\ components[Entry.id].parentId = NoId
                   /\ pc' = pc
                   /\ i' = i + 1 ]_vars

\* with createMissingParents set the create for parent "C" was rejected: the
\* child is there, unlinked, and the report has no error
C22_Witness ==
    /\ pc = "done"
    /\ createMissingParents
    /\ Orphans # {}
    /\ stats.errors = <<>>
    /\ Occurrences(stats.warnings, WarnCouldNotCreate(<<"C">>)) # {}
    /\ \E k \in Orphans : components[parentQueue[k].id].parentId = NoId

(***************************************************************************)
(* C23: Pass 3 changes only the dependency table and the warnings list:    *)
(* it creates no component, adds no createdItems entry, changes no         *)
(* parentId, and leaves created, skipped and errors as they were at the    *)
(* end of Pass 2; its only store calls are dependency.create.              *)
(***************************************************************************)
C23_Pass3Frame ==
    [][ pc = "pass3" =>
          /\ components' = components
          /\ createdItems' = createdItems
          /\ parentQueue' = parentQueue
          /\ stats'.created = stats.created
          /\ stats'.skipped = stats.skipped
          /\ stats'.errors = stats.errors
          /\ \A k \in (Len(calls) + 1)..Len(calls') :
                calls'[k].op = "dependency.create" ]_vars

\* Pass 3 stored an edge, had an insert rejected and warned of a missing name
C23_Witness ==
    /\ pc = "done"
    /\ dependencies # {}
    /\ DepWarnings(stats.warnings) # {}
    /\ \E k \in 1..Len(calls) : calls[k].op = "dependency.create" /\ ~calls[k].ok
    /\ stats.created > 0

(***************************************************************************)
(* C24: in every state of a run, created equals the number of createdItems *)
(* entries, which equals the number of components the run has created in   *)
(* the store (Pass 1 rows plus synthesized parents); createdItems maps     *)
(* distinct names to distinct ids, each the id of the component of that    *)
(* name.                                                                   *)
(***************************************************************************)
C24_Counts ==
    /\ stats.created = Cardinality(DOMAIN createdItems)
    /\ stats.created = Cardinality(DOMAIN components)
    /\ stats.created = Cardinality({ k \in CreateCalls(calls) : calls[k].ok })
    /\ \A n \in DOMAIN createdItems, m \in DOMAIN createdItems :
          createdItems[n] = createdItems[m] => n = m
    /\ \A c \in DOMAIN components :
          /\ components[c].name \in DOMAIN createdItems
          /\ createdItems[components[c].name] = c

C24_CreatedIsIndexSize == []C24_Counts

\* a run that created a row's component and a synthesized parent, and had a
\* create rejected
C24_Witness ==
    /\ pc = "done"
    /\ stats.created = 2
    /\ SynthesizedCount = 1
    /\ Len(stats.errors) = 1

(***************************************************************************)
(* C25: every row is accounted for exactly once by Pass 1: after Pass 1    *)
(* has processed the first k rows, (components created by rows) + skipped  *)
(* + (number of entries of errors) = k, so from the end of Pass 1 on the   *)
(* three add up to the number of rows.                                     *)
(***************************************************************************)
C25_Sum ==
    RowsAccounted = IF pc = "pass1" THEN i - 1 ELSE Len(rows)

C25_RowsAccountedOnce ==
    /\ []C25_Sum
    /\ [][ InPass1 =>
             /\ i' = i + 1
             /\ LET made == stats'.created - stats.created
                    skip == stats'.skipped - stats.skipped
                    errs == Len(stats'.errors) - Len(stats.errors)
                IN  /\ {made, skip, errs} \subseteq {0, 1}
                    /\ made + skip + errs = 1 ]_vars

\* a batch of which one row was created, one skipped or one failed
C25_Witness ==
    /\ pc = "done"
    /\ Len(rows) = 2
    /\ stats.created - SynthesizedCount = 1
    /\ stats.skipped + Len(stats.errors) = 1
    /\ SynthesizedCount = 1

(***************************************************************************)
(* C26: the warnings list is ordered by pass and then by position: every   *)
(* Pass 1 warning precedes every Pass 2 warning, which precedes every      *)
(* Pass 3 warning; within Pass 1 and Pass 3 warnings are in ascending row  *)
(* order, within Pass 2 in parent-queue order, which is the file order of  *)
(* the child rows; a warning once appended is never removed or reordered.  *)
(***************************************************************************)
\* the pass that appends a warning of this kind
PassOf(w) ==
    IF w.kind \in { WarnNoName(0).kind, WarnDuplicate(0, <<>>).kind } THEN 1
    ELSE IF w.kind = WarnDepNotFound(<<>>, <<>>).kind THEN 3
    ELSE 2

\* the row whose Pass 1 create returned component id
RowOf(id) ==
    CHOOSE r \in 1..Len(rows) :
        RowCreated(r) /\ getValue(rows[r], "name") = components[id].name

\* the warnings the step appended
Appended == SubSeq(stats'.warnings, Len(stats.warnings) + 1, Len(stats'.warnings))

C26_Ordered ==
    /\ \A a \in 1..Len(stats.warnings), b \in 1..Len(stats.warnings) :
          a < b =>
            /\ PassOf(stats.warnings[a]) <= PassOf(stats.warnings[b])
            /\ (PassOf(stats.warnings[b]) = 1)
                  => stats.warnings[a].row < stats.warnings[b].row
    /\ \A a \in 1..Len(parentQueue), b \in 1..Len(parentQueue) :
          a < b => RowOf(parentQueue[a].id) < RowOf(parentQueue[b].id)

C26_WarningsInOrder ==
    /\ []C26_Ordered
    /\ [][ /\ Len(stats'.warnings) >= Len(stats.warnings)
           /\ SubSeq(stats'.warnings, 1, Len(stats.warnings)) = stats.warnings
           /\ pc' = pc => (i' >= i /\ (pc = "pass3" /\ i' = i => j' > j))
           /\ \A k \in 1..Len(Appended) :
                 /\ pc = "pass1" =>
                       PassOf(Appended[k]) = 1 /\ Appended[k].row = i
                 /\ pc = "pass2" =>
                       /\ PassOf(Appended[k]) = 2
                       /\ Appended[k].name = parentQueue[i].parentName
                 /\ pc = "pass3" =>
                       Appended[k] =
                          WarnDepNotFound(getValue(rows[i], "name"), DeclaredDeps(i)[j])
         ]_vars

\* a report with a warning of each pass, in that order
C26_Witness ==
    /\ pc = "done"
    /\ Len(parentQueue) = 1
    /\ \E a \in 1..Len(stats.warnings), b \in 1..Len(stats.warnings),
          c \in 1..Len(stats.warnings) :
          /\ a < b /\ b < c
          /\ PassOf(stats.warnings[a]) = 1
          /\ PassOf(stats.warnings[b]) = 2
          /\ PassOf(stats.warnings[c]) = 3

(***************************************************************************)
(* The call under fair scheduling: executeImport is one sequential async   *)
(* function, so a step that can be taken is taken once the awaited store   *)
(* call has returned.                                                      *)
(***************************************************************************)
\* the rows of the fair runs: a row that names the parent "C" declares the
\* dependencies "B,C", any other row declares none
FairRows ==
    { r \in [Cols -> NameCells \cup ParentCells \cup { <<"B", ",", "C">> }] :
        /\ r["c1"] \in NameCells
        /\ r["c2"] \in { <<>>, <<"A">>, <<"C">> }
        /\ r["c3"] = IF r["c2"] = <<"C">> THEN <<"B", ",", "C">> ELSE <<>> }

FairBatches == UNION { [1..n -> FairRows] : n \in 1..MaxRows }

InitFair ==
    /\ mappings = StdMapping
    /\ rows \in FairBatches
    /\ Start

SpecFair == InitFair /\ [][Next]_vars /\ WF_vars(Next)

(***************************************************************************)
(* C27: for every batch and a store whose calls always return, with a      *)
(* failure at most on create calls, the call terminates: Pass 1 visits     *)
(* each row once, Pass 2 visits each parent-queue entry once and never     *)
(* enqueues (a synthesized parent is never itself queued), Pass 3 visits   *)
(* each row once, and the report is then returned.                         *)
(***************************************************************************)
\* the store rejected a component.update
UpdateRejected ==
    \E k \in 1..Len(calls) : calls[k].op = "component.update" /\ ~calls[k].ok

C27_VisitsOnce ==
    /\ InPass1 => (pc' = pc /\ i' = i + 1)
    /\ pc = "pass2" => parentQueue' = parentQueue
    /\ InPass2 => (i' = i + 1 /\ pc' = pc) \/ (pc' = "threw" /\ UpdateRejected')
    /\ InPass3 =>
          /\ pc' = pc
          /\ \/ i' = i + 1 /\ j' = 1
             \/ i' = i /\ j' = j + 1 /\ j' <= Len(DeclaredDeps(i))
    /\ (pc = "pass1" /\ ~InPass1) => (pc' = "pass2" /\ i' = 1)
    /\ (pc = "pass2" /\ ~InPass2) => (pc' = "pass3" /\ i' = 1)
    /\ (pc = "pass3" /\ ~InPass3) => pc' = "done"

C27_Terminates ==
    /\ <>(pc = "done" \/ UpdateRejected)
    /\ [][C27_VisitsOnce]_vars

\* the report was returned after creates were rejected and a parent was
\* synthesized, every update accepted
C27_Witness ==
    /\ pc = "done"
    /\ ~UpdateRejected
    /\ \E k \in 1..Len(calls) : ~calls[k].ok
    /\ SynthesizedCount > 0
    /\ Len(parentQueue) > 0
    /\ dependencies # {}

(***************************************************************************)
(* C28: after the call the parent relation over the batch's components is  *)
(* a forest: following parentId links from a component never returns to    *)
(* it, also when two rows name each other as parent. Stated for the        *)
(* batches in which no row names itself as parent.                         *)
(***************************************************************************)
\* the components reached from id by following at most n parentId links
RECURSIVE Ancestors(_, _)
Ancestors(id, n) ==
    IF n = 0 \/ id \notin DOMAIN components THEN {}
    ELSE LET p == components[id].parentId
         IN  IF p = NoId THEN {} ELSE {p} \cup Ancestors(p, n - 1)

NoRowNamesItself ==
    \A k \in 1..Len(rows) :
        LET name == getValue(rows[k], "name")
        IN  Truthy(name) => getValue(rows[k], "parentName") # name

C28_ParentForest ==
    (pc = "done" /\ NoRowNamesItself) =>
        \A id \in DOMAIN components :
            id \notin Ancestors(id, Cardinality(DOMAIN components))

(***************************************************************************)
(* C29: with createMissingParents set, when the store rejects the create   *)
(* of a missing parent, `created` and the name index are unchanged, the    *)
(* child's parentId stays unset, no update is requested for that child,    *)
(* the failure is reported in `warnings`, and the later queue entries are  *)
(* still processed: one that names the same parent requests the create     *)
(* again.                                                                  *)
(***************************************************************************)
\* this step of Pass 2 had its component.create rejected
ParentCreateRejected ==
    /\ InPass2
    /\ Len(calls') = Len(calls) + 1
    /\ calls'[Len(calls')].op = "component.create"
    /\ ~calls'[Len(calls')].ok

\* an earlier entry's create of the parent this entry names was rejected
RejectedBefore ==
    /\ InPass2
    /\ createMissingParents
    /\ MapGet(createdItems, parentQueue[i].parentName) = NoId
    /\ \E k \in CreateCalls(calls) :
          ~calls[k].ok /\ calls[k].type = ParentType
                       /\ calls[k].name = parentQueue[i].parentName

C29_RejectedStep ==
    /\ ParentCreateRejected =>
          LET id == parentQueue[i].id
              parentName == parentQueue[i].parentName
          IN  /\ createMissingParents
              /\ calls'[Len(calls')].name = parentName
              /\ stats'.created = stats.created
              /\ stats'.skipped = stats.skipped
              /\ stats'.errors = stats.errors
              /\ createdItems' = createdItems
              /\ components' = components
              /\ components'[id].parentId = NoId
              /\ \A k \in 1..Len(calls') :
                    calls'[k].op = "component.update" => calls'[k].id # id
              /\ stats'.warnings = stats.warnings \o
                    << WarnCouldNotCreate(parentName), WarnParentNotFound(parentName) >>
              /\ pc' = "pass2"
              /\ i' = i + 1
              /\ parentQueue' = parentQueue
    /\ RejectedBefore =>
          /\ Len(calls') > Len(calls)
          /\ calls'[Len(calls) + 1].op = "component.create"
          /\ calls'[Len(calls) + 1].name = parentQueue[i].parentName

C29_RejectedParentCreate == [][C29_RejectedStep]_vars

\* the create of parent "C" was rejected for one child and accepted for a
\* later one: the first child has no parent, the second has the new parent
C29_Witness ==
    /\ pc = "done"
    /\ Len(parentQueue) = 2
    /\ \E k \in CreateCalls(calls), l \in CreateCalls(calls) :
          /\ k < l
          /\ ~calls[k].ok /\ calls[k].type = ParentType
          /\ calls[l].ok /\ calls[l].type = ParentType
          /\ calls[k].name = calls[l].name
          /\ components[parentQueue[1].id].parentId = NoId
          /\ components[parentQueue[2].id].parentId = calls[l].id

(***************************************************************************)
(* C30: a rejected dependency.create for one edge does not abort Pass 3:   *)
(* the remaining dependency names of that row and all later rows are       *)
(* still processed, the report is returned, and `created` and `skipped`    *)
(* are unchanged by the failure.                                           *)
(***************************************************************************)
\* the store has rejected a dependency.create of this run
EdgeRejected(log) ==
    \E k \in 1..Len(log) : log[k].op = "dependency.create" /\ ~log[k].ok

\* this step of Pass 3 had its dependency.create rejected
EdgeRejectedNow ==
    /\ InPass3
    /\ Len(calls') = Len(calls) + 1
    /\ calls'[Len(calls')].op = "dependency.create"
    /\ ~calls'[Len(calls')].ok

\* name n declared by row r was processed: an edge was requested for it or
\* its absence was reported
NameProcessed(r, n) ==
    LET name == getValue(rows[r], "name")
    IN  \/ \E k \in 1..Len(calls) :
              /\ calls[k].op = "dependency.create"
              /\ calls[k].id = MapGet(createdItems, name)
              /\ calls[k].ref = MapGet(createdItems, n)
        \/ \E k \in 1..Len(stats.warnings) :
              stats.warnings[k] = WarnDepNotFound(name, n)

C30_AllProcessed ==
    pc = "done" =>
        \A r \in 1..Len(rows) :
            LET deps == DeclaredDeps(r)
            IN  \A n \in 1..Len(deps) : NameProcessed(r, deps[n])

C30_RejectedStep ==
    EdgeRejectedNow =>
        LET deps == DeclaredDeps(i)
        IN  /\ pc' = "pass3"
            /\ stats'.created = stats.created
            /\ stats'.skipped = stats.skipped
            /\ dependencies' = dependencies
            /\ IF j < Len(deps) THEN i' = i /\ j' = j + 1
                                ELSE i' = i + 1 /\ j' = 1

C30_EdgeFailureIsLocal ==
    /\ [][C30_RejectedStep]_vars
    /\ [](C30_AllProcessed)
    /\ (EdgeRejected(calls) ~> pc = "done")

\* the first edge of a row was rejected, the row's next name still got its
\* edge, and the report was returned
C30_Witness ==
    /\ pc = "done"
    /\ \E k \in 1..Len(calls), l \in 1..Len(calls) :
          /\ k < l
          /\ calls[k].op = "dependency.create" /\ ~calls[k].ok
          /\ calls[l].op = "dependency.create" /\ calls[l].ok
          /\ calls[l].id = calls[k].id
          /\ <<calls[l].id, calls[l].ref>> \in dependencies

====
